---- MODULE Spec2Model ----
(***************************************************************************)
(* A model of src/rust/hello_syntax.rs: main calls seven demonstration     *)
(* routines in order; each declares local bindings and prints them to      *)
(* standard output with println!.                                          *)
(*                                                                         *)
(* One action per source statement.  The program counter of a run is the   *)
(* source line of the statement it executes next.  Values are kept the way *)
(* the machine keeps them: an integer is a vector of bits of the declared  *)
(* width, a float is a binary mantissa and exponent, and println!'s        *)
(* Display formatting turns them back into decimal text.                   *)
(***************************************************************************)
EXTENDS Integers, Sequences, FiniteSets, TLC

VARIABLES input, pc, stack, frame, out, trace, status, prior

vars == <<input, pc, stack, frame, out, trace, status, prior>>

(***************************************************************************)
(* Bounds.  The program reads no input; `input` stands for what the        *)
(* environment offers a run (arguments, environment, stdin), a small       *)
(* number.  The process is started MaxRuns times, one run after another.   *)
(***************************************************************************)
MaxInput == 1

MaxRuns == 2

Inputs == 0..MaxInput

(***************************************************************************)
(* Decimal numerals: a natural number as the sequence of its decimal       *)
(* digits, most significant first, as a literal is written in the source.  *)
(* The arithmetic is written as functions: an argument is evaluated once,  *)
(* before the function is applied.  The recursive ones split their work in *)
(* halves, so the depth of evaluation stays logarithmic.                   *)
(***************************************************************************)
Dec == Seq(0..9)

Zeros[n \in Nat] == [i \in 1..n |-> 0]

\* d without its leading zeros (one digit is always kept)
Strip[d \in Dec] ==
  IF d = <<>> THEN <<0>>
  ELSE SubSeq(d,
              CHOOSE i \in 1..Len(d) :
                /\ i = Len(d) \/ d[i] # 0
                /\ \A j \in 1..(i-1) : d[j] = 0,
              Len(d))

DecOdd[d \in Dec] == d[Len(d)] % 2 = 1

\* floor(d / 2)
DecHalf[d \in Dec] ==
  Strip[[i \in 1..Len(d) |->
           (d[i] + (IF i > 1 /\ d[i-1] % 2 = 1 THEN 10 ELSE 0)) \div 2]]

\* 2 * d
DecDouble[d \in Dec] ==
  (IF d[1] >= 5 THEN <<1>> ELSE <<>>)
  \o [i \in 1..Len(d) |->
        ((2 * d[i]) % 10) + (IF i < Len(d) /\ d[i+1] >= 5 THEN 1 ELSE 0)]

\* the digits of d up to the last one that is not 9, that one raised by one
DecBump[d \in Dec, k \in Nat] ==
  IF k = 0 THEN <<1>> \o Zeros[Len(d)]
  ELSE SubSeq(d, 1, k - 1) \o <<d[k] + 1>> \o Zeros[Len(d) - k]

\* d + 1
DecInc[d \in Dec] ==
  DecBump[d, CHOOSE i \in 0..Len(d) :
               /\ i = 0 \/ d[i] # 9
               /\ \A j \in (i+1)..Len(d) : d[j] = 9]

\* a < b, for numerals without leading zeros
DecLess[a \in Dec, b \in Dec] ==
  \/ Len(a) < Len(b)
  \/ /\ Len(a) = Len(b)
     /\ \E i \in 1..Len(a) :
          /\ a[i] < b[i]
          /\ \A j \in 1..(i-1) : a[j] = b[j]

\* d * 2^s
DecMulPow2[d \in Dec, s \in Nat] ==
  IF s = 0 THEN d
  ELSE IF s = 1 THEN DecDouble[d]
  ELSE DecMulPow2[DecMulPow2[d, s \div 2], s - (s \div 2)]

\* floor(d / 2^s)
DecDivPow2[d \in Dec, s \in Nat] ==
  IF s = 0 THEN d
  ELSE IF s = 1 THEN DecHalf[d]
  ELSE DecDivPow2[DecDivPow2[d, s \div 2], s - (s \div 2)]

\* d * 10^t, floor(d / 10^t) and d mod 10^t
DecShift[d \in Dec, t \in Nat] == Strip[d \o Zeros[t]]

DecDropLow[d \in Dec, t \in Nat] ==
  IF Len(d) > t THEN SubSeq(d, 1, Len(d) - t) ELSE <<0>>

DecLow[d \in Dec, t \in Nat] ==
  IF t = 0 THEN <<0>>
  ELSE IF Len(d) > t THEN Strip[SubSeq(d, Len(d) - t + 1, Len(d))]
       ELSE d

Pow2[n \in Nat] == DecMulPow2[<<1>>, n]

DigitChar == <<"0", "1", "2", "3", "4", "5", "6", "7", "8", "9">>

\* the text of a numeral
DecString[d \in Dec] ==
  IF d = <<>> THEN ""
  ELSE IF Len(d) = 1 THEN DigitChar[d[1] + 1]
  ELSE DecString[SubSeq(d, 1, Len(d) \div 2)]
       \o DecString[SubSeq(d, (Len(d) \div 2) + 1, Len(d))]

(***************************************************************************)
(* Fixed-width integers.  A value of an integer type is its bit pattern,   *)
(* least significant bit first, two's complement for the signed types.     *)
(***************************************************************************)
IntTypes ==
  {"i8", "i16", "i32", "i64", "i128", "u8", "u16", "u32", "u64", "u128"}

Signed(ty) == ty \in {"i8", "i16", "i32", "i64", "i128"}

Width(ty) ==
  CASE ty \in {"i8", "u8"}     -> 8
    [] ty \in {"i16", "u16"}   -> 16
    [] ty \in {"i32", "u32"}   -> 32
    [] ty \in {"i64", "u64"}   -> 64
    [] ty \in {"i128", "u128"} -> 128

Bits == Seq({0, 1})

\* the low w bits of the number d
DecBits[d \in Dec, w \in Nat] ==
  IF w = 0 THEN <<>>
  ELSE IF w = 1 THEN <<IF DecOdd[d] THEN 1 ELSE 0>>
  ELSE DecBits[d, w \div 2] \o DecBits[DecDivPow2[d, w \div 2], w - (w \div 2)]

\* (acc * 2^Len(b)) + b
BitsOnto[acc \in Dec, b \in Bits] ==
  IF b = <<>> THEN acc
  ELSE IF Len(b) = 1
       THEN IF b[1] = 1 THEN DecInc[DecDouble[acc]] ELSE DecDouble[acc]
  ELSE BitsOnto[BitsOnto[acc, SubSeq(b, (Len(b) \div 2) + 1, Len(b))],
                SubSeq(b, 1, Len(b) \div 2)]

\* the number a bit vector stands for, read as unsigned
BitsDec[b \in Bits] == BitsOnto[<<0>>, b]

\* b + 1, modulo 2^Len(b): a bit flips when every bit below it is set
BitsInc[b \in Bits] ==
  [i \in 1..Len(b) |->
     IF \A j \in 1..(i-1) : b[j] = 1 THEN 1 - b[i] ELSE b[i]]

\* two's complement negation
BitsNeg[b \in Bits] == BitsInc[[i \in 1..Len(b) |-> 1 - b[i]]]

\* the largest value of an integer type: 2^(w-1) - 1 signed, 2^w - 1 unsigned
IntMax ==
  [ty \in IntTypes |->
     BitsDec[[i \in 1..(IF Signed(ty) THEN Width(ty) - 1 ELSE Width(ty)) |-> 1]]]

\* an integer literal of type ty: the literal's value in Width(ty) bits
IntLit(ty, d) == [ty |-> ty, bits |-> DecBits[Strip[d], Width(ty)]]

IntNegative(v) == Signed(v.ty) /\ v.bits[Len(v.bits)] = 1

\* a < b for two values of the same integer type
IntLess(a, b) ==
  IF IntNegative(a) # IntNegative(b)
  THEN IntNegative(a)
  ELSE DecLess[BitsDec[a.bits], BitsDec[b.bits]]

\* Display of an integer: its decimal text, with a sign when negative
IntDisplay(v) ==
  IF IntNegative(v)
  THEN "-" \o DecString[BitsDec[BitsNeg[v.bits]]]
  ELSE DecString[BitsDec[v.bits]]

(***************************************************************************)
(* Binary floating point.  A value is mant / 2^scale with a mantissa of    *)
(* Precision(ty) bits.  The model covers the values 1 <= v < 2^precision   *)
(* whose scale is >= 0, which holds every float literal of the program.    *)
(***************************************************************************)
FloatTypes == {"f32", "f64"}

Precision(ty) == CASE ty = "f32" -> 24 [] ty = "f64" -> 53

FloatValues == [ty : FloatTypes, mant : Dec, scale : Nat]

\* With floor(x / 10^j) < lo: the least scale s' > s at which
\* floor(x * 2^(s' - s) / 10^j) >= lo, together with x * 2^(s' - s).  The
\* scale is raised by k, k/2, .., 1 as long as that still falls short of lo.
FloatScale[x \in Dec, j \in Nat, lo \in Dec, s \in Nat, k \in Nat] ==
  IF k = 0 THEN [scale |-> s + 1, x |-> DecDouble[x]]
  ELSE IF DecLess[DecDropLow[DecMulPow2[x, k], j], lo]
       THEN FloatScale[DecMulPow2[x, k], j, lo, s + k, k \div 2]
       ELSE FloatScale[x, j, lo, s, k \div 2]

\* a numeral x scaled by 2^scale
FloatScaled == [scale : Nat, x : Dec]

\* x / 10^j rounded to an integer mantissa, ties to even; a mantissa that
\* rounds up to 2^p is 2^(p-1) at the scale below
FloatRound[ty \in FloatTypes, j \in Nat, at \in FloatScaled] ==
  LET q    == DecDropLow[at.x, j]
      rem2 == DecDouble[DecLow[at.x, j]]
      unit == DecShift[<<1>>, j]
      up   == DecLess[unit, rem2] \/ (rem2 = unit /\ DecOdd[q])
      m    == IF up THEN DecInc[q] ELSE q
  IN  IF m = Pow2[Precision(ty)]
      THEN [ty |-> ty, mant |-> Pow2[Precision(ty) - 1], scale |-> at.scale - 1]
      ELSE [ty |-> ty, mant |-> m, scale |-> at.scale]

\* the value of type ty nearest to n / 10^j
FloatNearest[ty \in FloatTypes, n \in Dec, j \in Nat] ==
  FloatRound[ty, j,
             IF DecLess[DecDropLow[n, j], Pow2[Precision(ty) - 1]]
             THEN FloatScale[n, j, Pow2[Precision(ty) - 1], 0, 32]
             ELSE [scale |-> 0, x |-> n]]

\* a float literal with integer digits ip and fraction digits fp
FloatLit(ty, ip, fp) == FloatNearest[ty, Strip[ip \o fp], Len(fp)]

\* v * 10^t rounded to the nearest integer
FloatDigits[v \in FloatValues, t \in Nat] ==
  IF v.scale = 0 THEN DecShift[v.mant, t]
  ELSE IF DecOdd[DecDivPow2[DecShift[v.mant, t], v.scale - 1]]
       THEN DecInc[DecDivPow2[DecShift[v.mant, t], v.scale]]
       ELSE DecDivPow2[DecShift[v.mant, t], v.scale]

\* the least number of decimal places, from t on, with which v reads back as v
FloatPlaces[v \in FloatValues, t \in Nat] ==
  IF FloatNearest[v.ty, FloatDigits[v, t], t] = v THEN t
  ELSE FloatPlaces[v, t + 1]

\* the numeral c written with t decimal places
FloatText[c \in Dec, t \in Nat] ==
  DecString[DecDropLow[c, t]]
  \o (IF t = 0 THEN ""
      ELSE "." \o DecString[SubSeq(c, Len(c) - t + 1, Len(c))])

FloatShortest[v \in FloatValues, t \in Nat] == FloatText[FloatDigits[v, t], t]

\* Display of a float: the shortest decimal text that reads back as the value
FloatDisplay(v) == FloatShortest[v, FloatPlaces[v, 0]]

(***************************************************************************)
(* bool and char.  A char is a Unicode scalar value; Display writes its    *)
(* UTF-8 encoding, shown here byte by byte as <XX>.                        *)
(***************************************************************************)
BoolLit(b) == [ty |-> "bool", b |-> b]

BoolDisplay(v) == IF v.b THEN "true" ELSE "false"

CharLit(cp) == [ty |-> "char", cp |-> cp]

HexChar ==
  <<"0", "1", "2", "3", "4", "5", "6", "7",
    "8", "9", "A", "B", "C", "D", "E", "F">>

ByteText(b) == "<" \o HexChar[(b \div 16) + 1] \o HexChar[(b % 16) + 1] \o ">"

\* the UTF-8 encoding of a scalar value, as a sequence of bytes
Utf8(cp) ==
  IF cp < 128 THEN <<cp>>
  ELSE IF cp < 2048 THEN <<192 + (cp \div 64), 128 + (cp % 64)>>
  ELSE IF cp < 65536
       THEN <<224 + (cp \div 4096), 128 + ((cp \div 64) % 64), 128 + (cp % 64)>>
       ELSE <<240 + (cp \div 262144), 128 + ((cp \div 4096) % 64),
              128 + ((cp \div 64) % 64), 128 + (cp % 64)>>

BytesText[bs \in Seq(0..255)] ==
  IF bs = <<>> THEN "" ELSE ByteText(Head(bs)) \o BytesText[Tail(bs)]

CharDisplay(v) == BytesText[Utf8(v.cp)]

\* a tuple value and its projection tup.i (i counted from 0, as in the source)
TupleLit(es) == [ty |-> "tuple", elems |-> es]

Field(v, i) == v.elems[i + 1]

\* what {name} in a println! format string writes for a value
Display(v) ==
  CASE v.ty \in IntTypes    -> IntDisplay(v)
    [] v.ty \in FloatTypes  -> FloatDisplay(v)
    [] v.ty = "bool"        -> BoolDisplay(v)
    [] v.ty = "char"        -> CharDisplay(v)

(***************************************************************************)
(* The state:                                                              *)
(*   input   what the environment offers the run; no statement reads it    *)
(*   pc      the source line of the statement executed next                *)
(*   stack   the return lines of the calls in progress                     *)
(*   frame   the bindings of the routine in progress (main has none)       *)
(*   out     the lines written to standard output by the run               *)
(*   trace   the statements the run has executed so far                    *)
(*   status  "running", or how the process ended                           *)
(*   prior   the earlier runs: the input and the output of each            *)
(***************************************************************************)
Names ==
  {"x", "y",
   "vari8", "vari16", "vari32", "vari64", "vari128",
   "varu8", "varu16", "varu32", "varu64", "varu128",
   "varf32", "varf64", "varbool", "varchar",
   "vartuple", "vare0", "vare1", "vare2"}

NoValue == [ty |-> "none"]

EmptyFrame == [n \in Names |-> NoValue]

\* the routine a source line belongs to
FnAt(line) ==
  CASE line \in 1..9    -> "main"
    [] line \in 13..21  -> "test_mutable"
    [] line \in 25..48  -> "test_integer"
    [] line \in 52..57  -> "test_float"
    [] line \in 61..64  -> "test_bool"
    [] line \in 68..71  -> "test_char"
    [] line \in 75..84  -> "test_tuple"
    [] line \in 88..104 -> "test_branch"

Event(op, at, arg, text) ==
  [op |-> op, fn |-> FnAt(at), at |-> at, arg |-> arg, text |-> text]

\* the process starts: main is entered, nothing is bound, nothing is written
Init ==
  /\ input \in Inputs
  /\ pc = 2
  /\ stack = <<>>
  /\ frame = EmptyFrame
  /\ out = <<>>
  /\ trace = <<>>
  /\ status = "running"
  /\ prior = <<>>

\* the run is at line `at` and goes on to line `nxt`
Goto(at, nxt) ==
  /\ status = "running"
  /\ pc = at
  /\ pc' = nxt

\* let name = v;
Let(at, nxt, name, v) ==
  /\ Goto(at, nxt)
  /\ frame' = [frame EXCEPT ![name] = v]
  /\ trace' = Append(trace, Event("let", at, name, ""))
  /\ UNCHANGED <<input, stack, out, status, prior>>

\* name = v;
Assign(at, nxt, name, v) ==
  /\ Goto(at, nxt)
  /\ frame' = [frame EXCEPT ![name] = v]
  /\ trace' = Append(trace, Event("assign", at, name, ""))
  /\ UNCHANGED <<input, stack, out, status, prior>>

\* println!("<label>{name}");
Println(at, nxt, label, name) ==
  LET text == label \o Display(frame[name])
  IN  /\ Goto(at, nxt)
      /\ out' = Append(out, text)
      /\ trace' = Append(trace, Event("print", at, name, text))
      /\ UNCHANGED <<input, stack, frame, status, prior>>

\* a call in main at line `at` of the routine whose first statement is at line
\* `entry`; the routine starts with no bindings and returns to line `nxt`
Call(at, nxt, entry) ==
  /\ Goto(at, entry)
  /\ stack' = <<nxt>> \o stack
  /\ frame' = EmptyFrame
  /\ trace' = Append(trace, Event("call", at, FnAt(entry), ""))
  /\ UNCHANGED <<input, out, status, prior>>

\* the closing brace of a routine at line `at`: its bindings end, main goes on
Return(at) ==
  /\ stack # <<>>
  /\ Goto(at, Head(stack))
  /\ stack' = Tail(stack)
  /\ frame' = EmptyFrame
  /\ trace' = Append(trace, Event("ret", at, FnAt(at), ""))
  /\ UNCHANGED <<input, out, status, prior>>

(***************************************************************************)
(* fn main(), lines 1-9                                                    *)
(***************************************************************************)
main_call_test_mutable == Call(2, 3, 14)
main_call_test_integer == Call(3, 4, 26)
\* (a variant for C1: line 4 calls test_bool, so that test_float is skipped)
main_call_test_bool_twice == Call(4, 5, 62)
main_call_test_float   == Call(4, 5, 53)
main_call_test_bool    == Call(5, 6, 62)
main_call_test_char    == Call(6, 7, 69)
main_call_test_tuple   == Call(7, 8, 76)
\* (a variant for C2: line 8 calls nothing, main goes on to its end)
main_skip_test_branch ==
  Goto(8, 9) /\ UNCHANGED <<input, stack, frame, out, trace, status, prior>>
main_call_test_branch  == Call(8, 9, 89)

\* main returns: the process ends with the success status
main_return ==
  /\ status = "running"
  /\ pc = 9
  /\ stack = <<>>
  /\ status' = "success"
  /\ UNCHANGED <<input, pc, stack, frame, out, trace, prior>>

main ==
  \/ main_call_test_mutable
  \/ main_call_test_integer
  \/ main_call_test_float
  \/ main_call_test_bool
  \/ main_call_test_char
  \/ main_call_test_tuple
  \/ main_call_test_branch
  \/ main_return

(***************************************************************************)
(* fn test_mutable(), lines 13-21                                          *)
(***************************************************************************)
\* (a variant for C8: x is taken from the environment)
mutable_let_x_from_input == Let(14, 15, "x", IntLit("i32", <<input>>))
mutable_let_x      == Let(14, 15, "x", IntLit("i32", <<3>>))
mutable_print_x    == Println(15, 17, "x = ", "x")
mutable_let_y      == Let(17, 18, "y", IntLit("i32", <<4>>))
mutable_print_y    == Println(18, 19, "y = ", "y")
\* (variants for C4 and C10: line 19 assigns the 6 of line 16; line 19 assigns
\* to x, as line 16 would assign to the immutable binding)
mutable_assign_y_6 == Assign(19, 20, "y", IntLit("i32", <<6>>))
mutable_assign_x   == Assign(19, 20, "x", IntLit("i32", <<5>>))
mutable_assign_y   == Assign(19, 20, "y", IntLit("i32", <<5>>))
\* (a variant for C5: line 20 shows x under the label of y)
mutable_print_x_again == Println(20, 21, "y = ", "x")
mutable_print_y_again == Println(20, 21, "y = ", "y")
mutable_return     == Return(21)

test_mutable ==
  \/ mutable_let_x
  \/ mutable_print_x
  \/ mutable_let_y
  \/ mutable_print_y
  \/ mutable_assign_y
  \/ mutable_print_y_again
  \/ mutable_return

(***************************************************************************)
(* fn test_integer(), lines 25-48                                          *)
(***************************************************************************)
\* (a variant for C6: the literal of line 27, one beyond the i8 range)
integer_let_vari8_128 == Let(26, 28, "vari8", IntLit("i8", <<1,2,8>>))
integer_let_vari8     == Let(26, 28, "vari8", IntLit("i8", <<1,2,7>>))
integer_print_vari8   == Println(28, 29, "i8 = ", "vari8")
integer_let_vari16    == Let(29, 31, "vari16", IntLit("i16", <<3,2,7,6,7>>))
integer_print_vari16  == Println(31, 32, "i16 = ", "vari16")
integer_let_vari32    ==
  Let(32, 33, "vari32", IntLit("i32", <<2,0,0,0,0,0,0,0,0,0>>))
integer_print_vari32  == Println(33, 34, "i32 = ", "vari32")
integer_let_vari64    ==
  Let(34, 35, "vari64", IntLit("i64", <<2,0,0,0,0,0,0,0,0,0>>))
integer_print_vari64  == Println(35, 36, "i64 = ", "vari64")
integer_let_vari128   ==
  Let(36, 37, "vari128", IntLit("i128", <<2,0,0,0,0,0,0,0,0,0>>))
integer_print_vari128 == Println(37, 38, "i128 = ", "vari128")
integer_let_varu8     == Let(38, 39, "varu8", IntLit("u8", <<2,5,5>>))
integer_print_varu8   == Println(39, 40, "u8 = ", "varu8")
\* (a variant for C7: varu16 declared with the u8 maximum)
integer_let_varu16_255 == Let(40, 41, "varu16", IntLit("u16", <<2,5,5>>))
integer_let_varu16    == Let(40, 41, "varu16", IntLit("u16", <<6,5,5,3,5>>))
integer_print_varu16  == Println(41, 42, "u16 = ", "varu16")
integer_let_varu32    ==
  Let(42, 43, "varu32", IntLit("u32", <<4,0,0,0,0,0,0,0,0,0>>))
integer_print_varu32  == Println(43, 44, "u32 = ", "varu32")
integer_let_varu64    ==
  Let(44, 45, "varu64", IntLit("u64", <<4,0,0,0,0,0,0,0,0,0>>))
integer_print_varu64  == Println(45, 46, "u64 = ", "varu64")
integer_let_varu128   ==
  Let(46, 47, "varu128", IntLit("u128", <<4,0,0,0,0,0,0,0,0,0>>))
integer_print_varu128 == Println(47, 48, "u128 = ", "varu128")
integer_return        == Return(48)

test_integer ==
  \/ integer_let_vari8    \/ integer_print_vari8
  \/ integer_let_vari16   \/ integer_print_vari16
  \/ integer_let_vari32   \/ integer_print_vari32
  \/ integer_let_vari64   \/ integer_print_vari64
  \/ integer_let_vari128  \/ integer_print_vari128
  \/ integer_let_varu8    \/ integer_print_varu8
  \/ integer_let_varu16   \/ integer_print_varu16
  \/ integer_let_varu32   \/ integer_print_varu32
  \/ integer_let_varu64   \/ integer_print_varu64
  \/ integer_let_varu128  \/ integer_print_varu128
  \/ integer_return

(***************************************************************************)
(* fn test_float(), lines 52-57                                            *)
(***************************************************************************)
float_let_varf32   == Let(53, 54, "varf32", FloatLit("f32", <<1,2,3>>, <<4,5>>))
float_print_varf32 == Println(54, 55, "f32 = ", "varf32")
float_let_varf64   ==
  Let(55, 56, "varf64", FloatLit("f64", <<1,2,3>>, <<4,5,6,7,8,9>>))
float_print_varf64 == Println(56, 57, "f64 = ", "varf64")
float_return       == Return(57)

test_float ==
  \/ float_let_varf32
  \/ float_print_varf32
  \/ float_let_varf64
  \/ float_print_varf64
  \/ float_return

(***************************************************************************)
(* fn test_bool(), lines 61-64                                             *)
(***************************************************************************)
bool_let_varbool   == Let(62, 63, "varbool", BoolLit(FALSE))
bool_print_varbool == Println(63, 64, "bool = ", "varbool")
bool_return        == Return(64)

test_bool ==
  \/ bool_let_varbool
  \/ bool_print_varbool
  \/ bool_return

(***************************************************************************)
(* fn test_char(), lines 68-71.  The literal is U+1F60E.                   *)
(***************************************************************************)
char_let_varchar   == Let(69, 70, "varchar", CharLit(128526))
char_print_varchar == Println(70, 71, "char = ", "varchar")
char_return        == Return(71)

test_char ==
  \/ char_let_varchar
  \/ char_print_varchar
  \/ char_return

(***************************************************************************)
(* fn test_tuple(), lines 75-84                                            *)
(***************************************************************************)
tuple_let_vartuple ==
  Let(76, 78, "vartuple",
      TupleLit(<<IntLit("u32", <<4,0,0,0,0,0,0,0,0,0>>),
                 IntLit("u16", <<6,5,5,3,5>>),
                 FloatLit("f32", <<1,2,3>>, <<4,5,6>>)>>))
tuple_let_vare0   == Let(78, 79, "vare0", Field(frame["vartuple"], 0))
\* (a variant for C9: line 79 projects component 0)
tuple_let_vare1_from_0 == Let(79, 80, "vare1", Field(frame["vartuple"], 0))
tuple_let_vare1   == Let(79, 80, "vare1", Field(frame["vartuple"], 1))
tuple_let_vare2   == Let(80, 81, "vare2", Field(frame["vartuple"], 2))
tuple_print_vare0 == Println(81, 82, "tup.0 = ", "vare0")
tuple_print_vare1 == Println(82, 83, "tup.1 = ", "vare1")
tuple_print_vare2 == Println(83, 84, "tup.2 = ", "vare2")
tuple_return      == Return(84)

test_tuple ==
  \/ tuple_let_vartuple
  \/ tuple_let_vare0
  \/ tuple_let_vare1
  \/ tuple_let_vare2
  \/ tuple_print_vare0
  \/ tuple_print_vare1
  \/ tuple_print_vare2
  \/ tuple_return

(***************************************************************************)
(* fn test_branch(), lines 88-104.  An if statement is one step: the       *)
(* condition is evaluated and the println! of the branch taken is written. *)
(***************************************************************************)
\* if cond { println!(then) } else { println!(else) }; no else when other = ""
IfPrintln(at, nxt, cond, then, other) ==
  LET lines == IF cond THEN <<then>>
               ELSE IF other # "" THEN <<other>> ELSE <<>>
      taken == IF cond THEN "then" ELSE IF other # "" THEN "else" ELSE "none"
      prints == [i \in 1..Len(lines) |-> Event("print", at, "", lines[i])]
  IN  /\ Goto(at, nxt)
      /\ out' = out \o lines
      /\ trace' = Append(trace, Event("if", at, taken, "")) \o prints
      /\ UNCHANGED <<input, stack, frame, status, prior>>

branch_let_x == Let(89, 90, "x", IntLit("i32", <<5>>))

\* (a variant for C3: the first condition is x <= 5)
branch_if_x_le_5 ==
  IfPrintln(90, 95, ~IntLess(IntLit("i32", <<5>>), frame["x"]),
            "(1) This is not executed.", "(1) This is executed.")

branch_if_x_lt_5 ==
  IfPrintln(90, 95, IntLess(frame["x"], IntLit("i32", <<5>>)),
            "(1) This is not executed.", "(1) This is executed.")

branch_if_x_gt_3 ==
  IfPrintln(95, 100, IntLess(IntLit("i32", <<3>>), frame["x"]),
            "(2) This is executed.", "(2) This is not executed.")

branch_let_varbool == Let(100, 101, "varbool", BoolLit(FALSE))

branch_if_not_varbool ==
  IfPrintln(101, 104, ~frame["varbool"].b, "(3) This is executed.", "")

branch_return == Return(104)

test_branch ==
  \/ branch_let_x
  \/ branch_if_x_lt_5
  \/ branch_if_x_gt_3
  \/ branch_let_varbool
  \/ branch_if_not_varbool
  \/ branch_return

(***************************************************************************)
(* The specification.  A run takes the one step its pc enables.  When it   *)
(* has ended the environment may start the process again, with any input.  *)
(* A process that can take a step is scheduled eventually, which is the    *)
(* weak fairness of LiveSpec; nothing obliges the environment to start     *)
(* another run.                                                            *)
(***************************************************************************)
RunStep ==
  \/ main
  \/ test_mutable
  \/ test_integer
  \/ test_float
  \/ test_bool
  \/ test_char
  \/ test_tuple
  \/ test_branch

\* the process is started again: the run that ended becomes a prior run
Start ==
  /\ status # "running"
  /\ Len(prior) + 1 < MaxRuns
  /\ prior' = Append(prior, [input |-> input, out |-> out])
  /\ input' \in Inputs
  /\ pc' = 2
  /\ stack' = <<>>
  /\ frame' = EmptyFrame
  /\ out' = <<>>
  /\ trace' = <<>>
  /\ status' = "running"

Next == RunStep \/ Start

Spec == Init /\ [][Next]_vars

LiveSpec == Spec /\ WF_vars(RunStep)

(***************************************************************************)
(* Reading the state: what a routine has printed, whether it has returned. *)
(***************************************************************************)
IsPrefix(s, t) == Len(s) <= Len(t) /\ SubSeq(t, 1, Len(s)) = s

Texts(es) == [i \in 1..Len(es) |-> es[i].text]

Args(es) == [i \in 1..Len(es) |-> es[i].arg]

Ops(es) == [i \in 1..Len(es) |-> es[i].op]

\* the events of the run with one of the operations ops
EventsOf(ops) == SelectSeq(trace, LAMBDA e : e.op \in ops)

\* the events of the run in routine f with one of the operations ops
EventsIn(f, ops) == SelectSeq(trace, LAMBDA e : e.fn = f /\ e.op \in ops)

\* the lines routine f has written
LinesOf(f) == Texts(EventsIn(f, {"print"}))

Returned(f) == EventsIn(f, {"ret"}) # <<>>

\* a sequence that grows into `all` and is `all` once `done`
GrowsTo(s, all, done) == IsPrefix(s, all) /\ (done => s = all)

Routines ==
  <<"test_mutable", "test_integer", "test_float", "test_bool", "test_char",
    "test_tuple", "test_branch">>

(***************************************************************************)
(* C1: in every run main invokes test_mutable, test_integer, test_float,   *)
(* test_bool, test_char, test_tuple, test_branch once each, in that order; *)
(* a routine is invoked only when the one before has returned, and every   *)
(* output line is written by the routine in progress, so the routines'     *)
(* lines do not interleave and none is skipped or repeated.                *)
(***************************************************************************)
C1_RoutinesOnceInOrder ==
  LET calls == Args(EventsOf({"call"}))
      rets  == Args(EventsOf({"ret"}))
      n     == Len(trace)
  IN  /\ GrowsTo(calls, Routines, status = "success")
      /\ GrowsTo(rets, Routines, status = "success")
      /\ Len(rets) <= Len(calls) /\ Len(calls) <= Len(rets) + 1
      /\ (n > 0 /\ trace[n].op = "print") =>
           /\ Len(calls) = Len(rets) + 1
           /\ trace[n].fn = Routines[Len(calls)]
      /\ out = Texts(EventsOf({"print"}))

C1_Witness ==
  /\ status = "success"
  /\ Len(EventsOf({"call"})) = 7
  /\ Len(out) > 7

(***************************************************************************)
(* C2: every run eventually ends with the success status; a run that has   *)
(* ended has "(3) This is executed." as its last output line; no state is  *)
(* an error exit.                                                          *)
(***************************************************************************)
C2_TerminatesWithSuccess ==
  /\ (status = "running") ~> (status = "success")
  /\ [](/\ status \in {"running", "success"}
        /\ status # "running" =>
             /\ out # <<>>
             /\ out[Len(out)] = "(3) This is executed.")

C2_Witness ==
  /\ status = "success"
  /\ out # <<>>
  /\ out[Len(out)] = "(3) This is executed."
  /\ prior # <<>>

(***************************************************************************)
(* C3: test_branch writes exactly the three lines "(1) This is executed.", *)
(* "(2) This is executed.", "(3) This is executed." in this order: the     *)
(* first if takes its else branch, the second and the third their then     *)
(* branch, and no "This is not executed." line is ever written.            *)
(***************************************************************************)
C3_BranchLines ==
  /\ GrowsTo(LinesOf("test_branch"),
             <<"(1) This is executed.", "(2) This is executed.",
               "(3) This is executed.">>,
             Returned("test_branch"))
  /\ GrowsTo(Args(EventsIn("test_branch", {"if"})), <<"else", "then", "then">>,
             Returned("test_branch"))
  /\ \A i \in 1..Len(out) :
       out[i] \notin {"(1) This is not executed.", "(2) This is not executed."}

C3_Witness ==
  /\ Returned("test_branch")
  /\ Len(EventsIn("test_branch", {"if"})) = 3

(***************************************************************************)
(* C4: test_mutable writes exactly the three lines "x = 3", "y = 4",       *)
(* "y = 5", in this order.                                                 *)
(***************************************************************************)
C4_MutableLines ==
  GrowsTo(LinesOf("test_mutable"), <<"x = 3", "y = 4", "y = 5">>,
          Returned("test_mutable"))

C4_Witness ==
  Returned("test_mutable") /\ Len(LinesOf("test_mutable")) = 3

(***************************************************************************)
(* C5: test_mutable reassigns y twice after declaring it and writes a line *)
(* showing y after each of the two reassignments.                          *)
(*                                                                         *)
(* As claimed (C5_TwoReassignments) this fails: the routine declares y,    *)
(* reassigns it once and writes y after the declaration and after the      *)
(* reassignment.  C5_OneReassignment states that: what happens to y is, in *)
(* order, let, print, assign, print, and each print shows the value y      *)
(* holds at that moment.                                                   *)
(***************************************************************************)
OnY == SelectSeq(trace, LAMBDA e : e.fn = "test_mutable" /\ e.arg = "y")

C5_TwoReassignments ==
  Returned("test_mutable") =>
    LET assigns == {i \in 1..Len(OnY) : OnY[i].op = "assign"}
    IN  /\ Cardinality(assigns) = 2
        /\ \A i \in assigns : i < Len(OnY) /\ OnY[i + 1].op = "print"

C5_OneReassignment ==
  /\ GrowsTo(Ops(OnY), <<"let", "print", "assign", "print">>,
             Returned("test_mutable"))
  /\ (/\ trace # <<>>
      /\ trace[Len(trace)].fn = "test_mutable"
      /\ trace[Len(trace)].op = "print"
      /\ trace[Len(trace)].arg = "y") =>
       trace[Len(trace)].text = "y = " \o IntDisplay(frame["y"])

C5_Witness ==
  /\ pc = 21
  /\ Ops(OnY) = <<"let", "print", "assign", "print">>
  /\ IntDisplay(frame["y"]) = "5"

(***************************************************************************)
(* C6: test_integer writes exactly ten lines, labelled i8, i16, i32, i64,  *)
(* i128, u8, u16, u32, u64, u128 in this order, each with the literal its  *)
(* binding was declared with: no value is truncated or wrapped to fit the  *)
(* declared width.                                                         *)
(***************************************************************************)
C6_IntegerLines ==
  GrowsTo(LinesOf("test_integer"),
          <<"i8 = 127", "i16 = 32767", "i32 = 2000000000",
            "i64 = 2000000000", "i128 = 2000000000",
            "u8 = 255", "u16 = 65535", "u32 = 4000000000",
            "u64 = 4000000000", "u128 = 4000000000">>,
          Returned("test_integer"))

C6_Witness ==
  Returned("test_integer") /\ Len(LinesOf("test_integer")) = 10

(***************************************************************************)
(* C7: every signed binding of test_integer holds the largest value of its *)
(* width, 2^(w-1) - 1, and each of varu16, varu32, varu64, varu128 holds a *)
(* value beyond the range of the next smaller unsigned type.               *)
(*                                                                         *)
(* As claimed (C7_MaxOrBeyondSmaller) this fails: vari32, vari64, vari128  *)
(* hold 2000000000 and varu64, varu128 hold 4000000000.                    *)
(* C7_RangeByExample states what holds: vari8 and vari16 hold the largest  *)
(* value of their width; vari32, vari64 and vari128 hold 2000000000, which *)
(* is within the i32 range and below its maximum; varu16 and varu32 hold a *)
(* value beyond the range of the next smaller unsigned type; varu64 and    *)
(* varu128 hold 4000000000, which is within the u32 range.                 *)
(***************************************************************************)
Bound(name) == frame[name] # NoValue

\* the value of an integer binding, as a numeral (the bindings here are >= 0)
ValueOf(name) == BitsDec[frame[name].bits]

SmallerUnsigned ==
  [n \in {"varu16", "varu32", "varu64", "varu128"} |->
     CASE n = "varu16"  -> "u8"
       [] n = "varu32"  -> "u16"
       [] n = "varu64"  -> "u32"
       [] n = "varu128" -> "u64"]

C7_MaxOrBeyondSmaller ==
  /\ \A n \in {"vari8", "vari16", "vari32", "vari64", "vari128"} :
       Bound(n) => ~IntNegative(frame[n]) /\ ValueOf(n) = IntMax[frame[n].ty]
  /\ \A n \in DOMAIN SmallerUnsigned :
       Bound(n) => DecLess[IntMax[SmallerUnsigned[n]], ValueOf(n)]

C7_RangeByExample ==
  /\ \A n \in {"vari8", "vari16"} :
       Bound(n) => ~IntNegative(frame[n]) /\ ValueOf(n) = IntMax[frame[n].ty]
  /\ \A n \in {"vari32", "vari64", "vari128"} :
       Bound(n) =>
         /\ ~IntNegative(frame[n])
         /\ ValueOf(n) = <<2,0,0,0,0,0,0,0,0,0>>
         /\ DecLess[ValueOf(n), IntMax["i32"]]
  /\ \A n \in {"varu16", "varu32"} :
       Bound(n) => DecLess[IntMax[SmallerUnsigned[n]], ValueOf(n)]
  /\ \A n \in {"varu64", "varu128"} :
       Bound(n) =>
         /\ ValueOf(n) = <<4,0,0,0,0,0,0,0,0,0>>
         /\ DecLess[ValueOf(n), IntMax["u32"]]
  /\ \A n \in {"vari8", "vari16", "vari32", "vari64", "vari128",
               "varu8", "varu16", "varu32", "varu64", "varu128"} :
       Bound(n) => frame[n].ty \in IntTypes /\ Len(frame[n].bits) = Width(frame[n].ty)

C7_Witness ==
  /\ pc = 48
  /\ \A n \in {"vari8", "vari16", "vari32", "vari64", "vari128",
               "varu8", "varu16", "varu32", "varu64", "varu128"} : Bound(n)

(***************************************************************************)
(* C8: the program is deterministic: a run writes the same lines, in the   *)
(* same order, as every run before it, whatever the environment offered    *)
(* either of them: while it runs its output is a prefix of the earlier     *)
(* run's, and once it has ended the two are equal.                         *)
(***************************************************************************)
C8_SameOutputEveryRun ==
  \A i \in 1..Len(prior) :
    GrowsTo(out, prior[i].out, status = "success")

C8_Witness ==
  /\ status = "success"
  /\ \E i \in 1..Len(prior) : prior[i].input # input /\ prior[i].out = out
  /\ Len(out) > 20

(***************************************************************************)
(* C9: test_tuple writes exactly the three lines "tup.0 = 4000000000",     *)
(* "tup.1 = 65535", "tup.2 = 123.456" in this order; vare0, vare1, vare2   *)
(* are the components of vartuple at index 0, 1, 2, and the lines show     *)
(* these three bindings: vartuple itself is never written.                 *)
(***************************************************************************)
C9_TupleLines ==
  /\ GrowsTo(LinesOf("test_tuple"),
             <<"tup.0 = 4000000000", "tup.1 = 65535", "tup.2 = 123.456">>,
             Returned("test_tuple"))
  /\ GrowsTo(Args(EventsIn("test_tuple", {"print"})),
             <<"vare0", "vare1", "vare2">>, Returned("test_tuple"))
  /\ \A i \in 0..2 :
       LET n == <<"vare0", "vare1", "vare2">>[i + 1]
       IN  Bound(n) => Bound("vartuple") /\ frame[n] = frame["vartuple"].elems[i + 1]
  /\ \A i \in 1..Len(trace) : trace[i].op = "print" => trace[i].arg # "vartuple"

C9_Witness ==
  /\ Returned("test_tuple")
  /\ Len(LinesOf("test_tuple")) = 3

(***************************************************************************)
(* C10: a binding declared without mut keeps the value it was declared     *)
(* with for as long as it exists; the only binding whose value changes is  *)
(* y, in test_mutable; the bindings that exist are those of the routine in *)
(* progress, so that test_branch computes with its own x = 5 and its own   *)
(* varbool = false, not with the x = 3 of test_mutable or the varbool of   *)
(* test_bool.                                                              *)
(***************************************************************************)
BindingsOf(f) ==
  CASE f = "main"         -> {}
    [] f = "test_mutable" -> {"x", "y"}
    [] f = "test_integer" -> {"vari8", "vari16", "vari32", "vari64", "vari128",
                              "varu8", "varu16", "varu32", "varu64", "varu128"}
    [] f = "test_float"   -> {"varf32", "varf64"}
    [] f = "test_bool"    -> {"varbool"}
    [] f = "test_char"    -> {"varchar"}
    [] f = "test_tuple"   -> {"vartuple", "vare0", "vare1", "vare2"}
    [] f = "test_branch"  -> {"x", "varbool"}

\* every binding that exists belongs to the routine in progress, and was
\* declared by a let of that routine in this invocation
C10_OwnBindings ==
  \A n \in Names :
    Bound(n) =>
      /\ n \in BindingsOf(FnAt(pc))
      /\ \E i \in 1..Len(trace) :
           /\ trace[i].op = "let" /\ trace[i].arg = n /\ trace[i].fn = FnAt(pc)
           /\ \A j \in i..Len(trace) : trace[j].op \notin {"call", "ret"}

\* a step changes no binding but y of test_mutable, unless the routine ends
C10_KeepsValue ==
  \A n \in Names :
    (Bound(n) /\ ~(n = "y" /\ FnAt(pc) = "test_mutable")) =>
      frame'[n] = frame[n] \/ FnAt(pc') = "main"

C10_BranchValues ==
  FnAt(pc) = "test_branch" =>
    /\ Bound("x") => IntDisplay(frame["x"]) = "5"
    /\ Bound("varbool") => frame["varbool"] = BoolLit(FALSE)

C10_ImmutableBindings ==
  /\ [](C10_OwnBindings /\ C10_BranchValues)
  /\ [][C10_KeepsValue]_vars

C10_Witness ==
  /\ pc = 104
  /\ Bound("x") /\ Bound("varbool")
  /\ prior # <<>>

====
